---- MODULE Spec2Model ----
(***************************************************************************)
(* HealScan AI (wound-recognition): the App component's state machine      *)
(* (src/src/App.tsx) and the Gemini adapter's response normalisation       *)
(* (src/src/gemini.ts).                                                    *)
(*                                                                         *)
(* JavaScript values are tagged records, so that values of different       *)
(* JavaScript types can be told apart:                                     *)
(*   [t |-> "undefined"], [t |-> "null"], [t |-> "bool", b |-> ...],       *)
(*   [t |-> "num", n |-> Int], [t |-> "nan"], [t |-> "str", s |-> chars],  *)
(*   [t |-> "arr", a |-> sequence], [t |-> "obj", o |-> function].         *)
(* A JavaScript string that the program parses or coerces is a sequence of *)
(* one-character strings; numbers are integers.                            *)
(***************************************************************************)
EXTENDS Integers, Sequences, FiniteSets, TLC

\* ------------------------------------------------------------------------
\* Bounds of the model
\* ------------------------------------------------------------------------

\* onAnalyze calls started in one session.
MaxAnalyses == 2

\* ------------------------------------------------------------------------
\* Program constants
\* ------------------------------------------------------------------------

\* [entry, ...history].slice(0, 25)
HistoryCap == 25

\* .slice(0, 4) of precautions and meds
ListCap == 4

\* clamp(..., 0, 100)
SeverityMin == 0

SeverityMax == 100

\* ------------------------------------------------------------------------
\* JavaScript values
\* ------------------------------------------------------------------------

Undefined == [t |-> "undefined"]

JNull == [t |-> "null"]

NaN == [t |-> "nan"]

JBool(b) == [t |-> "bool", b |-> b]

JNum(n) == [t |-> "num", n |-> n]

JStr(s) == [t |-> "str", s |-> s]

JArr(a) == [t |-> "arr", a |-> a]

JObj(o) == [t |-> "obj", o |-> o]

EmptyObject == JObj([k \in {} |-> Undefined])

Max2(a, b) == IF a >= b THEN a ELSE b

Min2(a, b) == IF a <= b THEN a ELSE b

Digits == <<"0", "1", "2", "3", "4", "5", "6", "7", "8", "9">>

IsDigit(c) == \E i \in 1..10 : Digits[i] = c

DigitValue(c) == (CHOOSE i \in 1..10 : Digits[i] = c) - 1

RECURSIVE DigitsValue(_)
\* The value of a non-empty sequence of decimal digits.
DigitsValue(s) ==
  IF Len(s) = 0 THEN 0
  ELSE 10 * DigitsValue(SubSeq(s, 1, Len(s) - 1)) + DigitValue(s[Len(s)])

RECURSIVE NatToChars(_)
NatToChars(n) ==
  IF n < 10 THEN <<Digits[n + 1]>>
  ELSE NatToChars(n \div 10) \o <<Digits[(n % 10) + 1]>>

\* Number.prototype.toString for an integer.
IntToChars(n) == IF n < 0 THEN <<"-">> \o NatToChars(0 - n) ELSE NatToChars(n)

RECURSIVE Trim(_)
\* String.prototype.trim over the blank character.
Trim(s) ==
  IF Len(s) = 0 THEN s
  ELSE IF s[1] = " " THEN Trim(Tail(s))
  ELSE IF s[Len(s)] = " " THEN Trim(SubSeq(s, 1, Len(s) - 1))
  ELSE s

\* StringToNumber of ECMAScript over the alphabet of digits, sign, blank and
\* letters: blank or empty is 0, an optionally signed digit string is its
\* value, anything else is NaN.
StringToNumber(s) ==
  LET u == Trim(s)
      signed == Len(u) > 0 /\ u[1] \in {"-", "+"}
      body == IF signed THEN Tail(u) ELSE u
  IN  IF Len(u) = 0 THEN JNum(0)
      ELSE IF Len(body) > 0 /\ \A i \in 1..Len(body) : IsDigit(body[i])
           THEN JNum(IF u[1] = "-" THEN 0 - DigitsValue(body) ELSE DigitsValue(body))
           ELSE NaN

RECURSIVE Join(_)
\* Array.prototype.join(",") of already stringified elements.
Join(ss) ==
  IF Len(ss) = 0 THEN <<>>
  ELSE IF Len(ss) = 1 THEN ss[1]
  ELSE ss[1] \o <<",">> \o Join(Tail(ss))

RECURSIVE String(_)
\* String(v)
String(v) ==
  CASE v.t = "undefined" -> <<"u","n","d","e","f","i","n","e","d">>
    [] v.t = "null" -> <<"n","u","l","l">>
    [] v.t = "bool" -> IF v.b THEN <<"t","r","u","e">> ELSE <<"f","a","l","s","e">>
    [] v.t = "num" -> IntToChars(v.n)
    [] v.t = "nan" -> <<"N","a","N">>
    [] v.t = "str" -> v.s
    [] v.t = "arr" ->
         Join([i \in 1..Len(v.a) |->
                 IF v.a[i].t \in {"null", "undefined"} THEN <<>> ELSE String(v.a[i])])
    [] v.t = "obj" -> <<"[","o","b","j","e","c","t"," ","O","b","j","e","c","t","]">>

\* Number(v)
Number(v) ==
  CASE v.t = "undefined" -> NaN
    [] v.t = "null" -> JNum(0)
    [] v.t = "bool" -> JNum(IF v.b THEN 1 ELSE 0)
    [] v.t = "num" -> v
    [] v.t = "nan" -> NaN
    [] v.t = "str" -> StringToNumber(v.s)
    [] v.t = "arr" -> StringToNumber(String(v))
    [] v.t = "obj" -> NaN

\* ToBoolean(v)
Truthy(v) ==
  CASE v.t = "undefined" -> FALSE
    [] v.t = "null" -> FALSE
    [] v.t = "bool" -> v.b
    [] v.t = "num" -> v.n # 0
    [] v.t = "nan" -> FALSE
    [] v.t = "str" -> Len(v.s) > 0
    [] v.t = "arr" -> TRUE
    [] v.t = "obj" -> TRUE

\* a || b
Or(a, b) == IF Truthy(a) THEN a ELSE b

\* o.k for an object o
Get(o, k) == IF k \in DOMAIN o.o THEN o.o[k] ELSE Undefined

isNaN(v) == v.t = "nan"

RECURSIVE SelectSeqBy(_, _)
SelectSeqBy(s, keep) ==
  IF Len(s) = 0 THEN <<>>
  ELSE IF keep[1] THEN <<s[1]>> \o SelectSeqBy(Tail(s), Tail(keep))
  ELSE SelectSeqBy(Tail(s), Tail(keep))

\* Array.prototype.slice(0, n)
Slice0(s, n) == SubSeq(s, 1, Min2(Len(s), n))

\* ------------------------------------------------------------------------
\* gemini.ts: the model's reply and its normalisation
\* ------------------------------------------------------------------------

\* The reply text is a sequence of tokens: a run of prose without braces, an
\* opening brace, a closing brace, or one "key": value member of an object.
Prose == [k |-> "prose"]

LBrace == [k |-> "lbrace"]

RBrace == [k |-> "rbrace"]

Member(key, val) == [k |-> "member", key |-> key, val |-> val]

\* text.match(/\{[\s\S]*\}/): the greedy span from the first opening brace to
\* the last closing brace after it; <<>> stands for null (no match).
MatchBraces(text) ==
  LET opens == {i \in 1..Len(text) : text[i].k = "lbrace"}
      first == CHOOSE i \in opens : \A j \in opens : i <= j
      closes == {i \in 1..Len(text) : text[i].k = "rbrace" /\ i > first}
      last == CHOOSE i \in closes : \A j \in closes : j <= i
  IN  IF opens = {} THEN <<>>
      ELSE IF closes = {} THEN <<>>
      ELSE SubSeq(text, first, last)

\* JSON.parse of a span that starts with an opening brace: an object when
\* everything between the outer braces is a member, a SyntaxError otherwise.
\* A repeated key keeps its last value.
JSONparseObject(span) ==
  LET inner == SubSeq(span, 2, Len(span) - 1)
      wellFormed == /\ Len(span) >= 2
                    /\ span[1].k = "lbrace"
                    /\ span[Len(span)].k = "rbrace"
                    /\ \A i \in 1..Len(inner) : inner[i].k = "member"
      keys == {inner[i].key : i \in 1..Len(inner)}
      lastOf(key) == CHOOSE i \in 1..Len(inner) :
                        /\ inner[i].key = key
                        /\ \A j \in 1..Len(inner) : inner[j].key = key => j <= i
  IN  IF wellFormed
      THEN [ok |-> TRUE, value |-> JObj([key \in keys |-> inner[lastOf(key)].val])]
      ELSE [ok |-> FALSE, error |-> "SyntaxError"]

\* Array.isArray(v) ? v.map(String).filter(Boolean) : []
toStrArray(v) ==
  IF v.t = "arr"
  THEN LET strs == [i \in 1..Len(v.a) |-> String(v.a[i])]
       IN  SelectSeqBy(strs, [i \in 1..Len(strs) |-> Truthy(JStr(strs[i]))])
  ELSE <<>>

\* A clamp that forgets the lower limit.
clampNoFloor(n, min, max) == Min2(max, n)

\* Math.max(min, Math.min(max, n))
clamp(n, min, max) == Max2(min, Min2(max, n))

\* Lines 70-76: the normalised core record of a parsed object.
Normalize(json) ==
  [type |-> String(Or(Get(json, "type"), JStr(<<"O","t","h","e","r">>))),
   stage |-> String(Or(Get(json, "stage"), JStr(<<"U","n","k","n","o","w","n">>))),
   severity |-> clamp(Or(Number(Get(json, "severity")), JNum(0)).n, SeverityMin, SeverityMax),
   precautions |-> Slice0(toStrArray(Get(json, "precautions")), ListCap),
   meds |-> Slice0(toStrArray(Get(json, "meds")), ListCap)]

\* parseModelResponse(text): the normalised record, or the error thrown.
parseModelResponse(text) ==
  LET match == MatchBraces(text)
      parsed == JSONparseObject(match)
  IN  IF match = <<>> THEN [ok |-> FALSE, error |-> "Model returned no JSON"]
      ELSE IF ~parsed.ok THEN parsed
      ELSE [ok |-> TRUE, value |-> Normalize(parsed.value)]

\* An adapter that does not look at the key before it goes on.
MissingApiKeyUnchecked(key) == FALSE

\* if (!apiKey) throw new Error('Missing VITE_GEMINI_API_KEY')
MissingApiKey(key) == ~Truthy(key)

\* ------------------------------------------------------------------------
\* App.tsx: helpers
\* ------------------------------------------------------------------------

\* toAgeGroup(age) for a number age (NaN included).
toAgeGroup(age) ==
  IF age.t \in {"undefined", "null"} \/ isNaN(age) THEN "Any Age"
  ELSE IF age.n <= 12 THEN "Child"
  ELSE IF age.n >= 60 THEN "Elderly"
  ELSE "Adult"

\* The content of localStorage under 'healscan_history': no item, the empty
\* text, a text JSON.parse rejects, or a text that parses to the value v.
NoItem == [k |-> "none"]

EmptyText == [k |-> "empty"]

Garbage == [k |-> "garbage"]

JsonText(v) == [k |-> "json", v |-> v]

\* JSON.stringify drops the properties of an object whose value is undefined;
\* age is the one property of an entry that can be undefined.
StringifyEntry(e) ==
  LET kept == {f \in DOMAIN e : ~(f = "age" /\ e.age.t = "undefined")}
  IN  [f \in kept |-> e[f]]

\* JSON.stringify(list) as the value its text parses back to.
JSONstringify(list) == JsonText(JArr([i \in 1..Len(list) |-> StringifyEntry(list[i])]))

\* readHistory(): JSON.parse(localStorage.getItem(..) || '[]'), [] on a throw.
readHistory(item) ==
  CASE item.k = "none" -> JArr(<<>>)
    [] item.k = "empty" -> JArr(<<>>)
    [] item.k = "garbage" -> JArr(<<>>)
    [] item.k = "json" -> item.v

\* Whether [entry, ...history] can spread history (it is iterable).
Iterable(h) == h.t \in {"arr", "str"}

\* The elements the spread of an iterable yields.
SpreadOf(h) ==
  IF h.t = "arr" THEN h.a ELSE [i \in 1..Len(h.s) |-> JStr(<<h.s[i]>>)]

\* A record that cuts one entry too late.
UpdatedOffByOne(entry, h) == Slice0(<<entry>> \o SpreadOf(h), HistoryCap + 1)

\* [entry, ...history].slice(0, 25)
Updated(entry, h) == Slice0(<<entry>> \o SpreadOf(h), HistoryCap)

\* The first render of HistoryView and ReportsView reads list.length and calls
\* list.map when it is truthy: null throws on .length, a non-empty string has
\* no .map; either unmounts the application.
Renders(h) ==
  CASE h.t = "arr" -> TRUE
    [] h.t = "null" -> FALSE
    [] h.t = "undefined" -> FALSE
    [] h.t = "str" -> Len(h.s) = 0
    [] h.t = "obj" -> "length" \notin DOMAIN h.o
    [] OTHER -> TRUE

\* ------------------------------------------------------------------------
\* Inputs of the environment
\* ------------------------------------------------------------------------

NoFile == "null"

Files == {"wound.png"}

\* URL.createObjectURL(file), memoised per file.
imageUrlOf(f) == IF f = NoFile THEN "" ELSE "blob:" \o f

TabKeys == {"results", "history", "examples", "reports"}

\* Texts typed into the age field.
AgeInputs == {<<>>, <<"7">>, <<"a", "b", "c">>}

\* import.meta.env.VITE_GEMINI_API_KEY: unset, empty, or set.
ApiKeys == {Undefined, JStr(<<>>), JStr(<<"k", "e", "y">>)}

sBurn == <<"B", "u", "r", "n">>

sInflammatory == <<"I", "n", "f", "l", "a", "m", "m", "a", "t", "o", "r", "y">>

sScratch == <<"S", "c", "r", "a", "t", "c", "h">>

\* Replies of the model.
ReplyNoJson == <<Prose>>

ReplyUnclosed == <<Prose, LBrace, Member("type", JStr(sBurn))>>

ReplyTwoObjects ==
  <<LBrace, Member("type", JStr(sBurn)), RBrace, Prose, LBrace, RBrace>>

\* Scenario A of the specification: fenced JSON, severity 150, an empty
\* string among the precautions.
ReplyFenced ==
  <<Prose, LBrace,
    Member("type", JStr(sBurn)),
    Member("stage", JStr(sInflammatory)),
    Member("severity", JNum(150)),
    Member("precautions", JArr(<<JStr(<<"a">>), JStr(<<>>), JStr(<<"b">>)>>)),
    Member("meds", JArr(<<>>)),
    RBrace, Prose>>

ReplyEmptyObject == <<LBrace, RBrace>>

ReplyOffSchema ==
  <<LBrace,
    Member("type", JStr(sScratch)),
    Member("stage", JNull),
    Member("severity", JNum(-5)),
    Member("precautions", JStr(<<"w", "a", "s", "h">>)),
    Member("meds", JArr(<<JStr(<<"a">>), JNull, JNum(0), JStr(<<>>), JArr(<<>>),
                          JStr(<<"b">>), JBool(FALSE), EmptyObject>>)),
    RBrace>>

ReplyCoerced ==
  <<LBrace,
    Member("type", JNum(0)),
    Member("stage", JArr(<<>>)),
    Member("severity", JStr(<<"x">>)),
    Member("severity", JStr(<<" ", "5", "0">>)),
    Member("precautions", JArr(<<JNum(1), JNum(2), JNum(3), JNum(4), JNum(5)>>)),
    RBrace>>

ReplyOverlong ==
  <<Prose, LBrace,
    Member("type", JStr(<<>>)),
    Member("stage", JBool(FALSE)),
    Member("severity", JBool(TRUE)),
    Member("precautions", JArr(<<JStr(<<"a">>), JStr(<<"b">>), JStr(<<"c">>),
                                 JStr(<<"d">>), JStr(<<"e">>)>>)),
    Member("meds", JArr(<<JStr(<<>>), JStr(<<>>), JStr(<<>>), JStr(<<>>),
                          JStr(<<"x">>)>>)),
    RBrace>>

\* The replies a session is run with.
SessionReplies == {ReplyNoJson, ReplyTwoObjects, ReplyFenced}

\* The replies the normalisation is run with.
AllReplies ==
  {ReplyNoJson, ReplyUnclosed, ReplyTwoObjects, ReplyFenced, ReplyEmptyObject,
   ReplyOffSchema, ReplyCoerced, ReplyOverlong}

\* An entry an earlier session recorded and persisted; k is its timestamp.
PriorEntry(k) ==
  [timestamp |-> k, imageUrl |-> "blob:earlier", age |-> JNum(30),
   ageGroup |-> "Adult", type |-> sBurn, stage |-> sInflammatory,
   severity |-> 40, precautions |-> <<<<"a">>>>, meds |-> <<>>]

\* The history an earlier session left after n records, newest first.
PriorHistory(n) == [i \in 1..n |-> PriorEntry(n + 1 - i)]

\* What localStorage can hold at startup of a first session, or after its
\* content was damaged: nothing, the empty text, no JSON, or JSON that is not
\* an array.
SessionItems ==
  {NoItem, EmptyText, Garbage,
   JsonText(JNull), JsonText(JNum(42)), JsonText(EmptyObject),
   JsonText(JStr(<<"a", "b">>)), JsonText(JStr(<<>>))}

\* What localStorage holds after earlier sessions filled the history up to
\* one below the cap, or up to the cap.
CapItems ==
  {JSONstringify(PriorHistory(HistoryCap - 1)),
   JSONstringify(PriorHistory(HistoryCap))}

RECURSIVE Reverse(_)
Reverse(s) == IF Len(s) = 0 THEN <<>> ELSE Reverse(Tail(s)) \o <<s[1]>>

\* ------------------------------------------------------------------------
\* State
\* ------------------------------------------------------------------------

VARIABLES
  activeTab,  \* useState<TabKey>('results')
  file,       \* useState<File | null>(null)
  age,        \* useState<string>(''): the text of the age field
  busy,       \* useState<boolean>(false)
  thinking,   \* useState<string>('')
  result,     \* useState<AnalysisResult | null>(null)
  history,    \* useState(() => readHistory())
  storage,    \* localStorage item 'healscan_history'
  apiKey,     \* import.meta.env.VITE_GEMINI_API_KEY
  mounted,    \* the component tree is rendered (no render has thrown)
  attempts,   \* the onAnalyze calls that have not settled, with their closures
  started,    \* number of onAnalyze calls so far
  now,        \* Date.now()
  netCalls,   \* number of model.generateContent calls issued
  alertMsg,   \* the text alert() showed in the last step, "" if it showed none
  recorded    \* every entry put at the head of the history, oldest first

vars ==
  <<activeTab, file, age, busy, thinking, result, history, storage, apiKey,
    mounted, attempts, started, now, netCalls, alertMsg, recorded>>

InitOver(items, keys) ==
  /\ activeTab = "results"
  /\ file = NoFile
  /\ age = <<>>
  /\ busy = FALSE
  /\ thinking = ""
  /\ result = JNull
  /\ storage \in items
  /\ history = readHistory(storage)
  /\ apiKey \in keys
  /\ mounted = Renders(history)
  /\ attempts = {}
  /\ started = 0
  /\ now = HistoryCap
  /\ netCalls = 0
  /\ alertMsg = ""
  /\ recorded = IF history.t = "arr" THEN Reverse(history.a) ELSE <<>>

\* A rejected promise is handled in a microtask, before any user event.
Quiet == \A a \in attempts : a.stage # "rejected"

\* The user can act: the tree is mounted and no microtask is pending.
Interactive == mounted /\ Quiet

\* ------------------------------------------------------------------------
\* User actions other than Analyze
\* ------------------------------------------------------------------------

onFileChange ==
  /\ Interactive
  /\ \E f \in Files \cup {NoFile} : file' = f
  /\ alertMsg' = ""
  /\ UNCHANGED <<activeTab, age, busy, thinking, result, history, storage, apiKey,
                 mounted, attempts, started, now, netCalls, recorded>>

setAge(ages) ==
  /\ Interactive
  /\ \E s \in ages : age' = s
  /\ alertMsg' = ""
  /\ UNCHANGED <<activeTab, file, busy, thinking, result, history, storage, apiKey,
                 mounted, attempts, started, now, netCalls, recorded>>

setActiveTab ==
  /\ Interactive
  /\ \E tab \in TabKeys : activeTab' = tab
  /\ alertMsg' = ""
  /\ UNCHANGED <<file, age, busy, thinking, result, history, storage, apiKey,
                 mounted, attempts, started, now, netCalls, recorded>>

\* HistoryView's View button of item idx: const it = history[idx];
\* if (!it) return; setResult(it); setActiveTab('results').
onSelect ==
  /\ Interactive
  /\ history.t = "arr"
  /\ \E idx \in 1..Len(history.a) :
       /\ result' = history.a[idx]
       /\ activeTab' = "results"
  /\ alertMsg' = ""
  /\ UNCHANGED <<file, age, busy, thinking, history, storage, apiKey, mounted,
                 attempts, started, now, netCalls, recorded>>

\* ------------------------------------------------------------------------
\* onAnalyze
\* ------------------------------------------------------------------------

\* A button that is disabled only while no file is chosen.
AnalyzeDisabledWithoutFile == file = NoFile

\* The Analyze button: disabled={!file || busy}.
AnalyzeDisabled == file = NoFile \/ busy

\* The closure of one onAnalyze call, up to its first await: ageNum, ageGroup,
\* and the file, age, imageUrl and history of the render it was created in.
\* storage0 remembers the stored item at the time of the call.
NewAttempt ==
  LET ageNum == Number(JStr(age))
  IN  [id |-> started + 1,
       file |-> file,
       age |-> age,
       imageUrl |-> imageUrlOf(file),
       ageNum |-> ageNum,
       ageGroup |-> toAgeGroup(ageNum),
       history |-> history,
       storage0 |-> storage,
       stage |-> IF MissingApiKey(apiKey) THEN "rejected" ELSE "reading"]

\* Click on Analyze: lines 25-32 up to the await, and analyzeWithGemini up to
\* its own first await (file.arrayBuffer()) or its throw.
onAnalyze ==
  /\ Interactive
  /\ ~AnalyzeDisabled
  /\ started < MaxAnalyses
  /\ busy' = TRUE
  /\ thinking' = "Thinking... analyzing wound type and stage"
  /\ attempts' = attempts \cup {NewAttempt}
  /\ started' = started + 1
  /\ alertMsg' = ""
  /\ UNCHANGED <<activeTab, file, age, result, history, storage, apiKey, mounted,
                 now, netCalls, recorded>>

\* An onAnalyze that never clears the busy flag.
FinallyOmitted == busy' = busy

\* finally { setBusy(false) }
Finally == busy' = FALSE

\* catch (e) { console.error(e); alert(e?.message || 'Analysis failed');
\* setThinking('') }
Catch(msg) ==
  /\ alertMsg' = msg
  /\ thinking' = ""

\* A catch block that also clears the displayed result.
AnalyzeFailsClearingResult(a, msg) ==
  /\ Catch(msg)
  /\ Finally
  /\ attempts' = attempts \ {a}
  /\ result' = JNull
  /\ UNCHANGED <<activeTab, file, age, history, storage, apiKey, mounted,
                 started, now, netCalls, recorded>>

\* The awaited analyzeWithGemini rejects: lines 33-47 are skipped, the catch
\* and finally blocks run.
AnalyzeFails(a, msg) ==
  /\ Catch(msg)
  /\ Finally
  /\ attempts' = attempts \ {a}
  /\ UNCHANGED <<activeTab, file, age, result, history, storage, apiKey, mounted,
                 started, now, netCalls, recorded>>

\* analyzeWithGemini threw on the missing key.
keyRejected ==
  \E a \in attempts :
    /\ a.stage = "rejected"
    /\ AnalyzeFails(a, "Missing VITE_GEMINI_API_KEY")

\* file.arrayBuffer() resolves; model.generateContent sends the request.
fileRead ==
  \E a \in attempts :
    /\ a.stage = "reading"
    /\ attempts' = (attempts \ {a}) \cup {[a EXCEPT !.stage = "requesting"]}
    /\ netCalls' = netCalls + 1
    /\ alertMsg' = ""
    /\ UNCHANGED <<activeTab, file, age, busy, thinking, result, history, storage,
                   apiKey, mounted, started, now, recorded>>

\* file.arrayBuffer() rejects.
fileReadFails ==
  \E a \in attempts :
    /\ a.stage = "reading"
    /\ AnalyzeFails(a, "NotReadableError")

\* model.generateContent rejects, or result.response.text() throws.
requestFails ==
  \E a \in attempts :
    /\ a.stage = "requesting"
    /\ AnalyzeFails(a, "NetworkError")

\* The reply arrives and parseModelResponse throws.
replyRejected(replies) ==
  \E a \in attempts, text \in replies :
    /\ a.stage = "requesting"
    /\ ~parseModelResponse(text).ok
    /\ AnalyzeFails(a, parseModelResponse(text).error)

\* Lines 33-39: the entry of a normalised reply.
EntryOf(a, res, timestamp) ==
  [timestamp |-> timestamp,
   imageUrl |-> a.imageUrl,
   age |-> IF isNaN(a.ageNum) THEN Undefined ELSE a.ageNum,
   ageGroup |-> a.ageGroup,
   type |-> res.type,
   stage |-> res.stage,
   severity |-> res.severity,
   precautions |-> res.precautions,
   meds |-> res.meds]

\* The reply arrives and is recorded: lines 33-47, then finally. A request
\* takes time: Date.now() has advanced since the last entry.
replyRecorded(replies) ==
  \E a \in attempts, text \in replies :
    LET entry == EntryOf(a, parseModelResponse(text).value, now + 1)
        updated == Updated(entry, a.history)
    IN  /\ a.stage = "requesting"
        /\ parseModelResponse(text).ok
        /\ Iterable(a.history)
        /\ now' = now + 1
        /\ result' = entry
        /\ history' = JArr(updated)
        /\ storage' = JSONstringify(updated)
        /\ activeTab' = "results"
        /\ thinking' = ""
        /\ alertMsg' = ""
        /\ Finally
        /\ attempts' = attempts \ {a}
        /\ recorded' = Append(recorded, entry)
        /\ UNCHANGED <<file, age, apiKey, mounted, started, netCalls>>

\* The reply arrives, setResult and setHistory are called, and
\* localStorage.setItem throws (the quota is exceeded): catch and finally.
replySaveFails(replies) ==
  \E a \in attempts, text \in replies :
    LET entry == EntryOf(a, parseModelResponse(text).value, now + 1)
        updated == Updated(entry, a.history)
    IN  /\ a.stage = "requesting"
        /\ parseModelResponse(text).ok
        /\ Iterable(a.history)
        /\ now' = now + 1
        /\ result' = entry
        /\ history' = JArr(updated)
        /\ Catch("QuotaExceededError")
        /\ Finally
        /\ attempts' = attempts \ {a}
        /\ recorded' = Append(recorded, entry)
        /\ UNCHANGED <<activeTab, file, age, storage, apiKey, mounted, started,
                       netCalls>>

\* The reply arrives, setResult is called, and the spread of a history that
\* is not iterable throws a TypeError: catch and finally.
replySpreadFails(replies) ==
  \E a \in attempts, text \in replies :
    LET entry == EntryOf(a, parseModelResponse(text).value, now + 1)
    IN  /\ a.stage = "requesting"
        /\ parseModelResponse(text).ok
        /\ ~Iterable(a.history)
        /\ now' = now + 1
        /\ result' = entry
        /\ Catch("TypeError: history is not iterable")
        /\ Finally
        /\ attempts' = attempts \ {a}
        /\ UNCHANGED <<activeTab, file, age, history, storage, apiKey, mounted,
                       started, netCalls, recorded>>

NextOver(ages, replies) ==
  \/ onFileChange
  \/ setAge(ages)
  \/ setActiveTab
  \/ onSelect
  \/ onAnalyze
  \/ keyRejected
  \/ fileRead
  \/ fileReadFails
  \/ requestFails
  \/ replyRejected(replies)
  \/ replyRecorded(replies)
  \/ replySaveFails(replies)
  \/ replySpreadFails(replies)

\* A session over a first or damaged storage item.
Init == InitOver(SessionItems, ApiKeys)

Next == NextOver(AgeInputs, SessionReplies)

Spec == Init /\ [][Next]_vars

\* A session that starts from a history earlier sessions filled (or from a
\* stored number), with the age field left empty.
InitCap == InitOver(CapItems \cup {JsonText(JNum(42))}, {Undefined, JStr(<<"k", "e", "y">>)})

NextCap == NextOver({<<>>}, {ReplyNoJson, ReplyFenced})

SpecCap == InitCap /\ [][NextCap]_vars

\* A first session run with every reply, with the age field left empty.
InitNorm == InitOver({NoItem, JsonText(JNum(42))}, {Undefined, JStr(<<"k", "e", "y">>)})

NextNorm == NextOver({<<>>}, AllReplies)

SpecNorm == InitNorm /\ [][NextNorm]_vars

\* ------------------------------------------------------------------------
\* Properties
\* ------------------------------------------------------------------------

\* The last n elements of s.
LastN(s, n) == SubSeq(s, Max2(1, Len(s) - n + 1), Len(s))

\* C1: the in-memory history never holds more than 25 entries and is exactly
\* the (at most 25) most recently recorded entries, newest first; so the
\* newest entry is at the head and the 26th record evicts the first.
C1_HistoryIsLatest25 ==
  history.t = "arr" =>
    /\ Len(history.a) <= 25
    /\ history.a = Reverse(LastN(recorded, 25))

\* C1 witness: 26 entries have been recorded, the history holds 25 of them,
\* the 26th at its head, and the first is gone.
C1_Witness ==
  /\ history.t = "arr"
  /\ Len(recorded) = 26
  /\ Len(history.a) = 25
  /\ history.a[1] = recorded[26]
  /\ history.a[25] = recorded[2]
  /\ \A i \in 1..Len(history.a) : history.a[i] # recorded[1]

\* The messages of the failures of the analysis path: missing credential,
\* unreadable file, endpoint or network error, no JSON block, malformed JSON.
AnalysisPathErrors ==
  {"Missing VITE_GEMINI_API_KEY", "NotReadableError", "NetworkError",
   "Model returned no JSON", "SyntaxError"}

\* C2: a step in which an analysis fails on the analysis path changes neither
\* the in-memory history, nor the stored item, nor the displayed result; and
\* history and stored item are those the attempt started with.
C2_FailureLeavesState ==
  [][alertMsg' \in AnalysisPathErrors =>
       /\ result' = result
       /\ history' = history
       /\ storage' = storage
       /\ \A a \in attempts \ attempts' :
            /\ history' = a.history
            /\ storage' = a.storage0]_vars

\* C2 witness: an analysis has just failed for lack of a JSON block while a
\* result of an earlier analysis is displayed and persisted.
C2_Witness ==
  /\ alertMsg = "Model returned no JSON"
  /\ result # JNull
  /\ history.t = "arr"
  /\ Len(history.a) = 1
  /\ storage = JSONstringify(history.a)
  /\ attempts = {}

\* The age group the specification gives to the text of the age field.
ClaimedAgeGroup(text) ==
  LET n == StringToNumber(text)
  IN  IF Len(Trim(text)) = 0 \/ isNaN(n) THEN "Any Age"
      ELSE IF n.n <= 12 THEN "Child"
      ELSE IF n.n >= 60 THEN "Elderly"
      ELSE "Adult"

\* C3: the ageGroup stored in a created record is the one the specification
\* gives to the age input: Child up to 12, Adult 13..59, Elderly from 60, and
\* Any Age for an empty or non-numeric input.
C3_AgeGroupOfInput ==
  [][recorded' # recorded =>
       \A a \in attempts \ attempts' :
         recorded'[Len(recorded')].ageGroup = ClaimedAgeGroup(a.age)]_vars

\* C4: at most one onAnalyze call is unsettled at any time.
C4_OneInFlight == Cardinality(attempts) <= 1

\* C4 witness: the second analysis of the session is waiting for its reply
\* while the user has removed the file and moved to another tab.
C4_Witness ==
  /\ started = 2
  /\ busy
  /\ \E a \in attempts : a.stage = "requesting" /\ a.file # file
  /\ activeTab = "history"
  /\ result # JNull

\* C5: at startup the loaded history is a sequence and the tree renders, and
\* it is the empty sequence when the item is missing or malformed.
C5_LoadYieldsSequence ==
  started = 0 =>
    /\ mounted
    /\ history.t = "arr"
    /\ (storage \in SessionItems => history = JArr(<<>>))

\* C6: every persisted record has a severity within [0, 100], at most 4
\* precautions and 4 meds, and no empty string among them.
C6_PersistedRecordsNormalised ==
  (storage.k = "json" /\ storage.v.t = "arr") =>
    \A i \in 1..Len(storage.v.a) :
      LET e == storage.v.a[i]
      IN  /\ e.severity >= 0
          /\ e.severity <= 100
          /\ Len(e.precautions) <= 4
          /\ Len(e.meds) <= 4
          /\ \A j \in 1..Len(e.precautions) : e.precautions[j] # <<>>
          /\ \A j \in 1..Len(e.meds) : e.meds[j] # <<>>

\* C6 witness: the persisted history holds a record made from a reply with
\* severity -5 and eight meds, and one made from a reply with severity 150
\* and an empty string among its precautions.
C6_Witness ==
  /\ storage.k = "json"
  /\ storage.v.t = "arr"
  /\ \E i \in 1..Len(storage.v.a) :
       /\ storage.v.a[i].type = sScratch
       /\ storage.v.a[i].severity = 0
       /\ Len(storage.v.a[i].meds) = 4
  /\ \E i \in 1..Len(storage.v.a) :
       /\ storage.v.a[i].type = sBurn
       /\ storage.v.a[i].severity = 100
       /\ storage.v.a[i].precautions = <<<<"a">>, <<"b">>>>

Vocabulary ==
  {sBurn, <<"C", "u", "t">>,
   <<"D","i","a","b","e","t","i","c"," ","F","o","o","t"," ","U","l","c","e","r">>,
   <<"I","n","f","e","c","t","e","d"," ","W","o","u","n","d">>,
   <<"O", "t", "h", "e", "r">>}

\* C7: the type of every recorded entry is one of Burn, Cut, Diabetic Foot
\* Ulcer, Infected Wound, Other.
C7_TypeInVocabulary ==
  \A i \in 1..Len(recorded) : recorded[i].type \in Vocabulary

\* C8: once an entry has been recorded the stored item is the serialised
\* in-memory history, and a displayed result is among the persisted records.
C8_StorageMirrorsHistory ==
  /\ (history.t = "arr" /\ Len(history.a) > 0) => storage = JSONstringify(history.a)
  /\ result # JNull =>
       /\ storage.k = "json"
       /\ storage.v.t = "arr"
       /\ \E i \in 1..Len(storage.v.a) : storage.v.a[i] = StringifyEntry(result)

\* C9: without a credential no request is ever sent to the endpoint.
C9_NoCallWithoutKey == ~Truthy(apiKey) => netCalls = 0

\* C9 witness: an analysis has just failed with the configuration error, and
\* no request was sent.
C9_Witness ==
  /\ ~Truthy(apiKey)
  /\ alertMsg = "Missing VITE_GEMINI_API_KEY"
  /\ started > 0
  /\ netCalls = 0

\* C10: the busy flag is set exactly while an onAnalyze call is unsettled,
\* and the progress message is empty whenever none is.
C10_BusyWhilePending ==
  /\ busy <=> attempts # {}
  /\ attempts = {} => thinking = ""

\* C10 witness: an analysis has just failed while persisting the history,
\* and the busy flag and the progress message are cleared.
C10_Witness ==
  /\ alertMsg = "QuotaExceededError"
  /\ attempts = {}
  /\ ~busy
  /\ thinking = ""
  /\ started > 0

====
